---- MODULE Spec2Model ----
(***************************************************************************)
(* A model of the component resolvers of the repository: Button,           *)
(* ActionButtons / ActionButton, Logo, Header, Footer and PageLayout.      *)
(*                                                                         *)
(* Every component is a pure function of its props.  One behaviour of the  *)
(* model is one render: Init draws the component and its props, the        *)
(* component's action applies the function and stores what reaches the     *)
(* rendered element (or the error thrown).  A rendered Header then takes   *)
(* the user's clicks, each of which may have the parent render it again;   *)
(* clicked is the sequence of those clicks.                                *)
(*                                                                         *)
(* Conventions                                                             *)
(*   - a JavaScript string is a TLA+ string; `undefined` is Undef;         *)
(*   - a class value is the sequence of its class tokens, so               *)
(*     "h-9 px-3 text-sm" is <<"h-9", "px-3", "text-sm">>; NoClass is what *)
(*     clsx keeps of undefined, "", false or a function: nothing;          *)
(*   - a boolean flag that the caller omits is FALSE: the destructuring    *)
(*     defaults (`loading = false`) and the truthiness of undefined        *)
(*     (`disabled || loading`) give the same result.                       *)
(***************************************************************************)
EXTENDS Naturals, Sequences, FiniteSets, TLC

VARIABLES comp, props, pc, out, clicked

vars == <<comp, props, pc, out, clicked>>

(***************************************************************************)
(* JavaScript values                                                       *)
(***************************************************************************)
Undef == "<undefined>"

NoClass == << >>

\* Truthiness of an optional string: undefined and "" are falsy.
Truthy(s) == s # Undef /\ s # ""

\* a || b on optional strings.
OrElse(a, b) == IF Truthy(a) THEN a ELSE b

\* a || b on numbers: 0 stands for an omitted (or zero) number, both falsy.
OrNum(a, b) == IF a # 0 THEN a ELSE b

\* An object prop the caller omits.
UndefObj == [undefined |-> TRUE]

\* A destructuring default `name = value`: it replaces undefined only.
Default(v, d) == IF v = Undef THEN d ELSE v

\* String.prototype.startsWith
startsWith(s, prefix) ==
    /\ Len(s) >= Len(prefix)
    /\ SubSeq(s, 1, Len(prefix)) = prefix

\* Property names every object literal inherits from Object.prototype.  A
\* lookup table[key] with such a key yields the inherited function, not
\* undefined.
ObjectPrototypeKeys == {"constructor", "toString", "valueOf", "hasOwnProperty"}

\* table[key] for an object literal whose values are class strings, as clsx
\* sees it: the registered class string for an own key; nothing for an
\* unknown key (undefined) and for an inherited key (a function), both of
\* which clsx drops.
Lookup(table, key) ==
    IF key \in DOMAIN table THEN table[key] ELSE NoClass

(***************************************************************************)
(* cn: clsx followed by the merge of duplicate tokens                      *)
(***************************************************************************)
RECURSIVE Flatten(_)
Flatten(frags) ==
    IF frags = << >> THEN << >> ELSE Head(frags) \o Flatten(Tail(frags))

\* Keep only the last occurrence of every token, order otherwise preserved.
RECURSIVE DedupeLast(_)
DedupeLast(toks) ==
    IF toks = << >> THEN << >>
    ELSE IF \E i \in 2..Len(toks) : toks[i] = Head(toks)
         THEN DedupeLast(Tail(toks))
         ELSE <<Head(toks)>> \o DedupeLast(Tail(toks))

\* cn(...inputs): the truthy inputs joined in argument order, duplicates
\* merged.  `frags` is the sequence of the arguments' class values.
cn(frags) == DedupeLast(Flatten(frags))

(***************************************************************************)
(* Button (src/components/ui/Button.tsx)                                   *)
(***************************************************************************)
buttonBase ==
    <<"inline-flex", "items-center", "justify-center", "gap-2",
      "rounded-full", "border", "border-solid", "transition-colors",
      "font-medium", "focus-visible:outline-none", "focus-visible:ring-2",
      "focus-visible:ring-ring", "focus-visible:ring-offset-2",
      "disabled:pointer-events-none", "disabled:opacity-50">>

variantTable ==
    [primary   |-> <<"bg-foreground", "text-background", "border-transparent",
                     "hover:bg-[#383838]", "dark:hover:bg-[#ccc]">>,
     secondary |-> <<"border-black/[.08]", "dark:border-white/[.145]",
                     "hover:bg-[#f2f2f2]", "dark:hover:bg-[#1a1a1a]",
                     "hover:border-transparent">>,
     ghost     |-> <<"border-transparent", "hover:bg-accent",
                     "hover:text-accent-foreground">>,
     link      |-> <<"border-transparent", "underline-offset-4",
                     "hover:underline", "text-primary">>]

sizeTable ==
    ("sm"      :> <<"h-9", "px-3", "text-sm">>) @@
    ("default" :> <<"h-10", "px-4", "text-sm", "sm:h-12", "sm:px-5",
                    "sm:text-base">>) @@
    ("lg"      :> <<"h-11", "px-8", "text-base">>) @@
    ("icon"    :> <<"h-10", "w-10">>)

widthTable ==
    [auto  |-> <<"w-auto">>,
     full  |-> <<"w-full">>,
     fixed |-> <<"w-full", "sm:w-auto", "md:w-[158px]">>]

\* Defaults other than the declared ones.
defaultVariants_Others == [variant |-> "secondary", size |-> "lg", width |-> "full"]

defaultVariants == [variant |-> "primary", size |-> "default", width |-> "auto"]

\* The fragment cva contributes for one dimension: the entry of the supplied
\* value, of the declared default when the value is omitted; an entry that
\* does not exist is undefined and contributes nothing.  cva raises nothing.
VariantFragment(table, value, default) == Lookup(table, OrElse(value, default))

\* A composition that puts the width fragment before the size fragment.
buttonVariants_WidthFirst(variant, size, width, className) ==
    <<buttonBase,
      VariantFragment(variantTable, variant, defaultVariants.variant),
      VariantFragment(widthTable, width, defaultVariants.width),
      VariantFragment(sizeTable, size, defaultVariants.size),
      className>>

\* buttonVariants({variant, size, width, className}): base, then one fragment
\* per dimension in declaration order, then className.
buttonVariants(variant, size, width, className) ==
    <<buttonBase,
      VariantFragment(variantTable, variant, defaultVariants.variant),
      VariantFragment(sizeTable, size, defaultVariants.size),
      VariantFragment(widthTable, width, defaultVariants.width),
      className>>

\* A Button that takes every supplied href, the empty one too, for a
\* destination (href !== undefined).
ButtonComp_WhenDefined(href) == IF href # Undef THEN "a" ELSE "button"

\* const Comp = href ? 'a' : 'button'
ButtonComp(href) == IF Truthy(href) THEN "a" ELSE "button"

\* A Button whose loading flag does not disable it.
isDisabled_DisabledOnly(disabled, loading) == disabled

\* const isDisabled = disabled || loading
isDisabled(disabled, loading) == disabled \/ loading

\* The <a> of the href branch: href, target and rel are passed as given and
\* neither `disabled` nor isDisabled is passed to the element.
\* The nodes a component renders: a text, a <span>, the spinner <svg>, the
\* icon node handed to Button.
Text(s) == [tag |-> "text", text |-> s]

Span(children) == [tag |-> "span", children |-> children]

Spinner == [tag |-> "svg", className |-> <<"animate-spin", "h-4", "w-4">>]

IconNode == [tag |-> "icon"]

\* A content whose label is hidden whenever the button loads.
content_LabelHiddenWhileLoading(p) ==
    LET iconPosition == Default(p.iconPosition, "left")
    IN  (IF p.loading THEN <<Spinner>> ELSE << >>)
        \o (IF ~p.loading /\ p.icon /\ iconPosition = "left"
            THEN <<IconNode>> ELSE << >>)
        \o <<Span(IF p.loading
                  THEN (IF Truthy(p.loadingText)
                        THEN <<Text(p.loadingText)>> ELSE << >>)
                  ELSE p.children)>>
        \o (IF ~p.loading /\ p.icon /\ iconPosition = "right"
            THEN <<IconNode>> ELSE << >>)

\* content: the spinner while loading, the icon on its side while not
\* loading, and a <span> of loadingText (loading and loadingText truthy) or of
\* the children.
content(p) ==
    LET iconPosition == Default(p.iconPosition, "left")
    IN  (IF p.loading THEN <<Spinner>> ELSE << >>)
        \o (IF ~p.loading /\ p.icon /\ iconPosition = "left"
            THEN <<IconNode>> ELSE << >>)
        \o <<Span(IF p.loading /\ Truthy(p.loadingText)
                  THEN <<Text(p.loadingText)>> ELSE p.children)>>
        \o (IF ~p.loading /\ p.icon /\ iconPosition = "right"
            THEN <<IconNode>> ELSE << >>)

ButtonAnchor(p) ==
    [kind      |-> "a",
     href      |-> p.href,
     target    |-> p.target,
     rel       |-> p.rel,
     className |-> cn(buttonVariants(p.variant, p.size, p.width, p.className)),
     content   |-> content(p)]

\* The <button> of the other branch.
ButtonElement(p) ==
    [kind      |-> "button",
     disabled  |-> isDisabled(p.disabled, p.loading),
     className |-> cn(buttonVariants(p.variant, p.size, p.width, p.className)),
     content   |-> content(p)]

Button(p) ==
    IF ButtonComp(p.href) = "a" THEN ButtonAnchor(p) ELSE ButtonElement(p)

(***************************************************************************)
(* ActionButton                                                            *)
(***************************************************************************)

\* A detection that misses protocol-relative addresses.
isExternal_HttpOnly(external, href) == external \/ startsWith(href, "http")

\* const isExternal = external || href.startsWith('http') || href.startsWith('//')
isExternal(external, href) ==
    external \/ startsWith(href, "http") \/ startsWith(href, "//")

\* A resolution in which the derived target of an external link wins over
\* the caller's.
finalTarget_AutoWins(target, external, href) ==
    IF isExternal(external, href) THEN "_blank" ELSE target

\* const finalTarget = target || (isExternal ? '_blank' : undefined)
finalTarget(target, external, href) ==
    OrElse(target, IF isExternal(external, href) THEN "_blank" ELSE Undef)

\* const finalRel = rel || (isExternal ? 'noopener noreferrer' : undefined)
finalRel(rel, external, href) ==
    OrElse(rel, IF isExternal(external, href) THEN "noopener noreferrer"
                ELSE Undef)

\* The props ActionButton passes to Button: the defaulted style props and
\* the resolved link attributes.
\* The <Image> of an icon descriptor.
IconImage(icon) ==
    [tag       |-> "Image",
     src       |-> icon.src,
     alt       |-> icon.alt,
     width     |-> OrNum(icon.width, 20),
     height    |-> OrNum(icon.height, 20),
     className |-> cn(<<<<"flex-shrink-0">>, icon.className>>)]

\* buttonContent: the icon before the label unless its position is right,
\* the label in a <span>, the icon after it when its position is right.
buttonContent(p) ==
    (IF p.icon # UndefObj /\ p.icon.position # "right"
     THEN <<IconImage(p.icon)>> ELSE << >>)
    \o <<Span(<<Text(p.label)>>)>>
    \o (IF p.icon # UndefObj /\ p.icon.position = "right"
        THEN <<IconImage(p.icon)>> ELSE << >>)

\* The props ActionButton passes to Button; it passes no icon, iconPosition
\* or loadingText, and its buttonContent for children.
ActionButtonPassed(p) ==
    [variant   |-> Default(p.variant, "primary"),
     size      |-> Default(p.size, "default"),
     width     |-> Default(p.width, "auto"),
     href      |-> p.href,
     target    |-> finalTarget(p.target, p.external, p.href),
     rel       |-> finalRel(p.rel, p.external, p.href),
     className |-> p.className,
     loading   |-> p.loading,
     disabled  |-> p.disabled,
     icon         |-> FALSE,
     iconPosition |-> Undef,
     loadingText  |-> Undef,
     children     |-> buttonContent(p)]

\* What ActionButton renders: the props it passes and the Button's element.
ActionButton(p) ==
    [passed |-> ActionButtonPassed(p),
     el     |-> Button(ActionButtonPassed(p))]

(***************************************************************************)
(* ActionButtons: the container of a list of ActionButton                  *)
(***************************************************************************)

gapClasses ==
    [sm |-> <<"gap-2">>, md |-> <<"gap-4">>, lg |-> <<"gap-6">>]

alignClasses ==
    [start   |-> <<"justify-start", "items-start">>,
     center  |-> <<"justify-center", "items-center">>,
     end     |-> <<"justify-end", "items-end">>,
     stretch |-> <<"justify-stretch", "items-stretch">>]

\* One key of a clsx object argument: the key's classes when its value is
\* truthy.
When(cond, classes) == IF cond THEN classes ELSE NoClass

\* responsive = { mobile: 'stack', tablet: 'row' } when omitted
responsiveOf(responsive) ==
    IF responsive = UndefObj THEN [mobile |-> "stack", tablet |-> "row"]
    ELSE responsive

\* A container that stacks whatever the direction.
containerClassesOfButtons_StackAnyDirection(p) ==
    LET direction == Default(p.direction, "horizontal")
        align     == Default(p.align, "center")
        gap       == Default(p.gap, "md")
        width     == Default(p.width, "auto")
        mobile    == responsiveOf(p.responsive).mobile
    IN  cn(<<<<"flex">>,
             Lookup(gapClasses, gap),
             Lookup(alignClasses, align),
             When(direction = "vertical", <<"flex-col">>),
             When(direction = "horizontal", <<"flex-row">>),
             When(width = "full", <<"w-full">>),
             When(width = "auto", <<"w-auto">>),
             When(mobile = "stack", <<"flex-col", "sm:flex-row">>),
             When(mobile = "wrap", <<"flex-row", "flex-wrap">>),
             When(mobile = "scroll", <<"flex-row", "overflow-x-auto">>),
             p.className>>)

containerClassesOfButtons(p) ==
    LET direction == Default(p.direction, "horizontal")
        align     == Default(p.align, "center")
        gap       == Default(p.gap, "md")
        width     == Default(p.width, "auto")
        mobile    == responsiveOf(p.responsive).mobile
    IN  cn(<<<<"flex">>,
             Lookup(gapClasses, gap),
             Lookup(alignClasses, align),
             When(direction = "vertical", <<"flex-col">>),
             When(direction = "horizontal", <<"flex-row">>),
             When(width = "full", <<"w-full">>),
             When(width = "auto", <<"w-auto">>),
             When(mobile = "stack" /\ direction = "horizontal",
                  <<"flex-col", "sm:flex-row">>),
             When(mobile = "wrap", <<"flex-row", "flex-wrap">>),
             When(mobile = "scroll", <<"flex-row", "overflow-x-auto">>),
             p.className>>)

ActionButtons(p) ==
    [kind      |-> "div",
     className |-> containerClassesOfButtons(p),
     children  |-> [i \in 1..Len(p.buttons) |-> ActionButton(p.buttons[i])]]

(***************************************************************************)
(* Logo                                                                    *)
(***************************************************************************)
sizeConfig ==
    [sm |-> [width |-> 100, height |-> 20],
     md |-> [width |-> 140, height |-> 28],
     lg |-> [width |-> 180, height |-> 38],
     xl |-> [width |-> 220, height |-> 48],
     custom |-> [width |-> 0, height |-> 0]]


logoClasses(p) ==
    cn(<<<<"transition-opacity", "duration-200">>,
         When(p.invertOnDark, <<"dark:invert">>),
         When(p.loading, <<"opacity-50">>),
         When(p.onClick, <<"cursor-pointer", "hover:opacity-80">>),
         p.className>>)

\* sizeConfig[size] is undefined for a size that is not registered, and
\* reading its width throws.
LogoThrows(p) ==
    LET size == Default(p.size, "lg")
    IN  size \notin DOMAIN sizeConfig

Logo(p) ==
    LET size       == Default(p.size, "lg")
        href       == Default(p.href, "/")
        dimensions == IF size = "custom"
                      THEN [width  |-> OrNum(p.width, 180),
                            height |-> OrNum(p.height, 38)]
                      ELSE sizeConfig[size]
    IN  [kind      |-> "img",
         width     |-> OrNum(p.width, dimensions.width),
         height    |-> OrNum(p.height, dimensions.height),
         className |-> logoClasses(p),
         link      |-> IF p.linkToHome \/ href # "/" THEN href ELSE Undef]


(***************************************************************************)
(* Header                                                                  *)
(***************************************************************************)
headerVariants ==
    [default     |-> <<"bg-background/95", "backdrop-blur",
                       "supports-[backdrop-filter]:bg-background/60">>,
     transparent |-> <<"bg-transparent">>,
     blur        |-> <<"bg-background/80", "backdrop-blur-md">>]

headerClasses(p) ==
    cn(<<<<"w-full", "transition-all", "duration-200">>,
         Lookup(headerVariants, Default(p.variant, "default")),
         When(p.sticky, <<"sticky", "top-0", "z-50">>),
         When(p.bordered, <<"border-b", "border-border">>),
         p.className>>)

\* The target and rel of a link whose only input is its external flag
\* (NavLink, the items of MobileMenu, FooterLink).
\* Link attributes that also treat an absolute or protocol-relative href as
\* external, as ActionButton does.
ExternalLinkProps_AutoDetect(href, external) ==
    [href   |-> href,
     target |-> IF isExternal(external, href) THEN "_blank" ELSE Undef,
     rel    |-> IF isExternal(external, href)
                THEN "noopener noreferrer" ELSE Undef]

ExternalLinkProps(href, external) ==
    [href   |-> href,
     target |-> IF external THEN "_blank" ELSE Undef,
     rel    |-> IF external THEN "noopener noreferrer" ELSE Undef]

NavLink(item) == ExternalLinkProps(item.href, item.external)

\* A mobile menu that lists its items whether open or not.
MobileMenu_AlwaysListed(items, open) ==
    [i \in 1..Len(items) |->
        ExternalLinkProps(items[i].href, items[i].external)]

\* MobileMenu: nothing when closed, one link per item when open.
MobileMenu(items, open) ==
    IF ~open THEN << >>
    ELSE [i \in 1..Len(items) |->
             ExternalLinkProps(items[i].href, items[i].external)]

\* The BrandLogo of the header: logo = {} gives size 'md' and linkToHome
\* true; BrandLogo adds "select-none" to the Logo's classes.
HeaderLogo ==
    Logo([size |-> "md", href |-> Undef, width |-> 0, height |-> 0,
          linkToHome |-> TRUE, invertOnDark |-> TRUE, loading |-> FALSE,
          onClick |-> FALSE, className |-> cn(<<<<"select-none">>, NoClass>>)])

Header(p) ==
    [kind       |-> "header",
     className  |-> headerClasses(p),
     logo       |-> IF p.showLogo THEN <<HeaderLogo>> ELSE << >>,
     desktopNav |-> [i \in 1..Len(p.navigation) |-> NavLink(p.navigation[i])],
     toggle     |-> p.showMobileMenu,
     mobileMenu |-> IF p.showMobileMenu /\ Len(p.navigation) > 0
                    THEN MobileMenu(p.navigation, p.mobileMenuOpen)
                    ELSE << >>]

(***************************************************************************)
(* Footer                                                                  *)
(***************************************************************************)
\* The class value undefined, where the code tells it from "".
UndefClass == <<Undef>>

footerVariants ==
    [simple   |-> <<"flex", "gap-6", "flex-wrap", "items-center",
                    "justify-center">>,
     detailed |-> <<"grid", "grid-cols-1", "md:grid-cols-4", "gap-8">>,
     minimal  |-> <<"flex", "items-center", "justify-between">>]

footerClasses(p) ==
    cn(<<IF p.gridPosition = UndefClass THEN <<"row-start-3">>
         ELSE p.gridPosition,
         <<"w-full", "py-6", "px-4", "sm:px-6", "lg:px-8", "border-t",
           "border-border", "bg-background/50">>,
         p.className>>)

contentClasses(p) ==
    cn(<<<<"container", "mx-auto">>,
         Lookup(footerVariants, Default(p.variant, "simple"))>>)

FooterLink(link) == ExternalLinkProps(link.href, link.external)

\* The footer with its flat list of links (sections omitted: the default []).
\* Each of the three content components renders the links; a variant that is
\* not one of the three renders none.
Footer(p) ==
    LET variant == Default(p.variant, "simple")
    IN  [kind             |-> "footer",
         className        |-> footerClasses(p),
         contentClassName |-> contentClasses(p),
         links            |-> IF variant \in DOMAIN footerVariants
                              THEN [i \in 1..Len(p.links) |->
                                       FooterLink(p.links[i])]
                              ELSE << >>]

(***************************************************************************)
(* PageLayout                                                              *)
(***************************************************************************)
layoutVariants ==
    [default    |-> [container |-> <<"grid", "grid-rows-[20px_1fr_20px]",
                                     "items-center", "justify-items-center",
                                     "min-h-screen", "p-8", "pb-20", "gap-16",
                                     "sm:p-20">>,
                     main      |-> <<"flex", "flex-col", "gap-[32px]",
                                     "row-start-2", "items-center",
                                     "sm:items-start">>,
                     footer    |-> <<"row-start-3">>],
     landing    |-> [container |-> <<"min-h-screen", "flex", "flex-col">>,
                     main      |-> <<"flex-1", "flex", "flex-col",
                                     "items-center", "justify-center", "px-4",
                                     "sm:px-6", "lg:px-8">>,
                     footer    |-> <<"mt-auto">>],
     app        |-> [container |-> <<"min-h-screen", "grid",
                                     "grid-rows-[auto_1fr_auto]">>,
                     main      |-> <<"container", "mx-auto", "px-4", "sm:px-6",
                                     "lg:px-8", "py-8">>,
                     footer    |-> NoClass],
     docs       |-> [container |-> <<"min-h-screen", "grid",
                                     "grid-rows-[auto_1fr_auto]">>,
                     main      |-> <<"container", "mx-auto", "px-4", "sm:px-6",
                                     "lg:px-8", "py-8", "max-w-4xl">>,
                     footer    |-> NoClass],
     centered   |-> [container |-> <<"min-h-screen", "flex", "flex-col",
                                     "items-center", "justify-center", "p-4">>,
                     main      |-> <<"w-full", "max-w-md">>,
                     footer    |-> <<"mt-8">>],
     fullscreen |-> [container |-> <<"min-h-screen", "flex", "flex-col">>,
                     main      |-> <<"flex-1">>,
                     footer    |-> NoClass]]

maxWidthClasses ==
    ("sm"   :> <<"max-w-sm">>)  @@ ("md"   :> <<"max-w-md">>) @@
    ("lg"   :> <<"max-w-lg">>)  @@ ("xl"   :> <<"max-w-xl">>) @@
    ("2xl"  :> <<"max-w-2xl">>) @@ ("full" :> <<"max-w-full">>) @@
    ("none" :> NoClass)

backgroundVariants ==
    [default  |-> NoClass,
     gradient |-> <<"bg-gradient-to-br", "from-background", "via-background",
                    "to-muted/20">>,
     grid     |-> <<"bg-grid-pattern">>,
     dots     |-> <<"bg-dots-pattern">>,
     none     |-> NoClass]

\* const layout = layoutVariants[variant], then layout.container: for a
\* variant that is no key of the table the lookup is undefined and reading
\* .container throws a TypeError, unless the name is one every object
\* inherits ("constructor", ...): then the lookup is a function and its
\* .container is undefined, which throws nothing.
PageLayoutThrows(p) ==
    LET variant == Default(p.variant, "default")
    IN  variant \notin DOMAIN layoutVariants /\ variant \notin ObjectPrototypeKeys

layoutOf(variant) ==
    IF variant \in DOMAIN layoutVariants THEN layoutVariants[variant]
    ELSE [container |-> NoClass, main |-> NoClass, footer |-> NoClass]

containerClasses(p) ==
    cn(<<layoutOf(Default(p.variant, "default")).container,
         Lookup(backgroundVariants, Default(p.background, "default")),
         <<"font-[family-name:var(--font-geist-sans)]">>,
         When(p.container.fluid, <<"w-full">>),
         p.container.className,
         p.className>>)

mainClasses(p) ==
    LET variant == Default(p.variant, "default")
    IN  cn(<<layoutOf(variant).main,
             p.main.className,
             IF Truthy(p.main.maxWidth)
             THEN Lookup(maxWidthClasses, p.main.maxWidth) ELSE NoClass,
             When(p.main.centered /\ variant # "centered", <<"mx-auto">>),
             When(p.main.padding # {FALSE} /\ variant = "fullscreen",
                  <<"p-4", "sm:p-6", "lg:p-8">>)>>)

\* header = { show: false } and footer = { show: true } when omitted
headerOf(header) ==
    IF header = UndefObj THEN [show |-> {FALSE}, component |-> FALSE]
    ELSE header

footerOf(footer) ==
    IF footer = UndefObj THEN [show |-> {TRUE}, component |-> FALSE]
    ELSE footer

renderHeader(p) ==
    LET header == headerOf(p.header)
    IN  IF header.show # {TRUE} THEN "null"
        ELSE IF header.component THEN "component"
        ELSE "SimpleHeader"

\* A footer hidden only by an explicit show = false.
renderFooter_ShownUnlessFalse(p) ==
    LET footer == footerOf(p.footer)
    IN  IF footer.show = {FALSE} THEN "null"
        ELSE IF footer.component THEN "component"
        ELSE IF Default(p.variant, "default") = "default" THEN "NextJSFooter"
        ELSE "Footer"

renderFooter(p) ==
    LET footer == footerOf(p.footer)
    IN  IF footer.show # {TRUE} THEN "null"
        ELSE IF footer.component THEN "component"
        ELSE IF Default(p.variant, "default") = "default" THEN "NextJSFooter"
        ELSE "Footer"

PageLayout(p) ==
    [kind          |-> "div",
     className     |-> containerClasses(p),
     mainClassName |-> mainClasses(p),
     header        |-> renderHeader(p),
     footer        |-> renderFooter(p)]

(***************************************************************************)
(* LayoutContext and useLayout                                             *)
(***************************************************************************)
\* The value LayoutContext is created with.
LayoutContextDefault ==
    [variant |-> "default", hasHeader |-> FALSE, hasFooter |-> TRUE]

\* The LayoutContext.Provider values that the element PageLayout returns
\* puts around its children: the <div> holds the header, <main> with the
\* children, and the footer, and no Provider.
provided(p) == << >>

\* Every Provider value above a consumer, outermost first.
RECURSIVE providedAbove(_)
providedAbove(ancestors) ==
    IF ancestors = << >> THEN << >>
    ELSE provided(Head(ancestors)) \o providedAbove(Tail(ancestors))

\* React.useContext(LayoutContext): the value of the nearest Provider above
\* the consumer, the value the context was created with when there is none.
useContext(ancestors) ==
    LET values == providedAbove(ancestors)
    IN  IF values = << >> THEN LayoutContextDefault ELSE values[Len(values)]

\* !context: an object is truthy; null and undefined are not.
isNullish(context) == context = UndefObj

\* The {variant, hasHeader, hasFooter} of one PageLayout.
contextOf(p) ==
    [variant   |-> Default(p.variant, "default"),
     hasHeader |-> renderHeader(p) # "null",
     hasFooter |-> renderFooter(p) # "null"]

(***************************************************************************)
(* The props the callers supply                                            *)
(***************************************************************************)
\* Destination addresses: every prefix, up to MaxHrefLen characters, of a
\* few addresses: absolute, protocol-relative, local, and near misses of the
\* two prefixes the code tests.
MaxHrefLen == 13

SampleHrefs ==
    {"https://a.com", "http://a.com", "//a.com", "/local", "htp://a.com",
     "/http", "mailto:a", "#top"}

Min(a, b) == IF a < b THEN a ELSE b

Hrefs == {SubSeq(u, 1, Min(n, Len(u))) : u \in SampleHrefs, n \in 0..MaxHrefLen}

\* A value outside every table, and one that every object inherits.
Unknown == "bogus"
Inherited == "constructor"

VariantIn == {Undef, "primary", "secondary", "ghost", "link", Unknown}
SizeIn    == {Undef, "sm", "default", "lg", "icon", Unknown}
WidthIn   == {Undef, "auto", "full", "fixed", Unknown}
TargetIn  == {Undef, "", "_blank", "_self"}
RelIn     == {Undef, "", "nofollow"}

\* Caller classes: none, one of its own, one that a component also generates.
ClassIn == {NoClass, <<"mt-4">>, <<"w-full">>}

\* An optional boolean that the code compares or negates: omitted, true, false.
OptBool == {{}, {TRUE}, {FALSE}}

\* Button: every style triple on either element kind, and every link
\* configuration.
ButtonProps ==
    [variant : VariantIn, size : SizeIn, width : WidthIn, className : ClassIn,
     href : {Undef, "/local"}, target : {Undef}, rel : {Undef},
     loading : BOOLEAN, disabled : BOOLEAN,
     icon : {FALSE}, iconPosition : {Undef}, loadingText : {Undef},
     children : {<<Text("Save")>>}]
    \cup
    [variant : {Undef, "ghost"}, size : {Undef}, width : {Undef},
     className : {NoClass, <<"mt-4">>},
     href : {Undef, "", "/local", "https://a.com"},
     target : TargetIn, rel : RelIn,
     loading : BOOLEAN, disabled : BOOLEAN,
     icon : {FALSE}, iconPosition : {Undef}, loadingText : {Undef},
     children : {<<Text("Save")>>}]
    \cup
    [variant : {Undef}, size : {Undef}, width : {Undef}, className : {NoClass},
     href : {Undef, "/local"}, target : {Undef}, rel : {Undef},
     loading : BOOLEAN, disabled : {FALSE},
     icon : BOOLEAN, iconPosition : {Undef, "left", "right"},
     loadingText : {Undef, "", "Saving"},
     children : {<< >>, <<Text("Save")>>}]

\* An icon descriptor: omitted, or with its address and alt text present,
\* empty or missing.
IconIn ==
    {UndefObj} \cup
    [src : {Undef, "", "/vercel.svg"}, alt : {Undef, "", "Vercel logomark"},
     width : {0, 16}, height : {0, 16},
     position : {Undef, "left", "right"},
     className : {NoClass, <<"dark:invert">>}]

\* ActionButton: every link configuration, and every style triple.
ActionButtonProps ==
    [variant : {Undef}, size : {Undef}, width : {Undef}, className : {NoClass},
     href : Hrefs, external : BOOLEAN, target : TargetIn, rel : RelIn,
     loading : BOOLEAN, disabled : BOOLEAN,
     label : {"Deploy now"}, icon : {UndefObj}]
    \cup
    [variant : VariantIn, size : SizeIn, width : WidthIn, className : ClassIn,
     href : {"/local", "https://a.com"}, external : {FALSE},
     target : {Undef}, rel : {Undef},
     loading : BOOLEAN, disabled : {FALSE},
     label : {"Deploy now"}, icon : {UndefObj}]
    \cup
    [variant : {Undef}, size : {Undef}, width : {Undef}, className : {NoClass},
     href : {"/local"}, external : {FALSE}, target : {Undef}, rel : {Undef},
     loading : BOOLEAN, disabled : {FALSE},
     label : {"Deploy now"}, icon : IconIn]

\* ActionButtons: the button lists of up to MaxButtons configurations.
MaxButtons == 2

SampleButtons ==
    [variant : {Undef}, size : {Undef}, width : {Undef, "fixed"},
     className : {NoClass}, href : {"/signup", "https://a.com"},
     external : {FALSE}, target : {Undef}, rel : {Undef},
     loading : {FALSE}, disabled : {FALSE},
     label : {"Deploy now"}, icon : {UndefObj}]

RECURSIVE SeqsUpTo(_, _)
SeqsUpTo(S, n) ==
    IF n = 0 THEN {<< >>}
    ELSE SeqsUpTo(S, n - 1)
         \cup {Append(q, x) : q \in {r \in SeqsUpTo(S, n - 1) : Len(r) = n - 1},
                              x \in S}

ResponsiveIn ==
    {UndefObj} \cup [mobile : {Undef, "stack", "wrap", "scroll", Unknown}]

ActionButtonsProps ==
    [buttons : SeqsUpTo(SampleButtons, MaxButtons),
     direction : {Undef}, align : {Undef}, gap : {Undef}, width : {Undef},
     className : {NoClass}, responsive : {UndefObj}]
    \cup
    [buttons : {<< >>},
     direction : {Undef, "horizontal", "vertical", Unknown},
     align : {Undef, "start", "center", "end", "stretch", Unknown},
     gap : {Undef, "sm", "md", "lg", Unknown},
     width : {Undef, "auto", "full", Unknown},
     className : ClassIn, responsive : ResponsiveIn]

LogoProps ==
    [size : {Undef, "sm", "md", "lg", "xl", "custom", Unknown},
     width : {0, 20}, height : {0, 20}, href : {Undef, "/", "/home"},
     linkToHome : BOOLEAN, invertOnDark : BOOLEAN, loading : BOOLEAN,
     onClick : BOOLEAN, className : ClassIn]

\* Header and Footer: the link lists of up to MaxLinks links.
MaxLinks == 1

LinkItems ==
    [href : {"/docs", "https://a.com", "//cdn.b.com"}, external : BOOLEAN]

HeaderProps ==
    [showLogo : BOOLEAN, navigation : SeqsUpTo(LinkItems, MaxLinks),
     sticky : BOOLEAN, bordered : BOOLEAN,
     variant : {Undef, "default", "transparent", "blur", Unknown},
     className : ClassIn, showMobileMenu : BOOLEAN, mobileMenuOpen : BOOLEAN,
     onMobileMenuToggle : BOOLEAN]

\* The clicks a user makes on one rendered Header: at most MaxClicks.
MaxClicks == 3

FooterProps ==
    [links : SeqsUpTo(LinkItems, MaxLinks),
     variant : {Undef, "simple", "detailed", "minimal", Unknown},
     gridPosition : {UndefClass, NoClass, <<"row-start-1">>},
     className : ClassIn]

PresetIn ==
    {Undef, "default", "landing", "app", "docs", "centered", "fullscreen",
     Unknown, Inherited}

MainDefault ==
    [className |-> NoClass, centered |-> FALSE, maxWidth |-> Undef,
     padding |-> {}]

ContainerDefault == [className |-> NoClass, fluid |-> FALSE]

ShowIn == {UndefObj} \cup [show : OptBool, component : BOOLEAN]

\* PageLayout: every container configuration, every main configuration, and
\* every header and footer configuration, each for every preset name.
PageLayoutProps ==
    [variant : PresetIn,
     background : {Undef, "default", "gradient", "grid", "dots", "none", Unknown},
     container : [className : ClassIn, fluid : BOOLEAN],
     className : ClassIn,
     main : {MainDefault}, header : {UndefObj}, footer : {UndefObj}]
    \cup
    [variant : PresetIn, background : {Undef},
     container : {ContainerDefault}, className : {NoClass},
     main : [className : ClassIn, centered : BOOLEAN,
             maxWidth : {Undef, "", "sm", "md", "lg", "xl", "2xl", "full",
                         "none", Unknown, Inherited},
             padding : OptBool],
     header : {UndefObj}, footer : {UndefObj}]
    \cup
    [variant : PresetIn, background : {Undef},
     container : {ContainerDefault}, className : {NoClass},
     main : {MainDefault}, header : ShowIn, footer : ShowIn]

\* A consumer of useLayout under up to MaxDepth nested PageLayouts,
\* outermost first, each of which renders.
MaxDepth == 2

SampleLayouts ==
    [variant : {Undef, "centered"}, background : {Undef},
     container : {ContainerDefault}, className : {NoClass},
     main : {MainDefault},
     header : {UndefObj, [show |-> {TRUE}, component |-> FALSE]},
     footer : {UndefObj, [show |-> {FALSE}, component |-> FALSE]}]

ConsumerProps == [ancestors : SeqsUpTo(SampleLayouts, MaxDepth)]

Components ==
    {"Button", "ActionButton", "ActionButtons", "Logo", "Header", "Footer",
     "PageLayout", "Consumer"}

PropsOf(c) ==
    CASE c = "Button"        -> ButtonProps
      [] c = "ActionButton"  -> ActionButtonProps
      [] c = "ActionButtons" -> ActionButtonsProps
      [] c = "Logo"          -> LogoProps
      [] c = "Header"        -> HeaderProps
      [] c = "Footer"        -> FooterProps
      [] c = "PageLayout"    -> PageLayoutProps
      [] c = "Consumer"      -> ConsumerProps

(***************************************************************************)
(* One render                                                              *)
(***************************************************************************)
NoOutput == [none |-> TRUE]

Thrown(name) == [error |-> name]

Init ==
    /\ comp \in Components
    /\ props \in PropsOf(comp)
    /\ pc = "call"
    /\ out = NoOutput
    /\ clicked = << >>

\* A render that returns.
Returns(c, result) ==
    /\ comp = c
    /\ pc = "call"
    /\ pc' = "done"
    /\ out' = result
    /\ UNCHANGED <<comp, props, clicked>>

\* A render that throws.
Throws(c, name) ==
    /\ comp = c
    /\ pc = "call"
    /\ pc' = "threw"
    /\ out' = Thrown(name)
    /\ UNCHANGED <<comp, props, clicked>>

RenderButton == Returns("Button", [el |-> Button(props)])

RenderActionButton == Returns("ActionButton", ActionButton(props))

RenderActionButtons == Returns("ActionButtons", [el |-> ActionButtons(props)])

RenderLogo ==
    \/ /\ comp = "Logo" /\ LogoThrows(props)
       /\ Throws("Logo", "TypeError")
    \/ /\ comp = "Logo" /\ ~LogoThrows(props)
       /\ Returns("Logo", [el |-> Logo(props)])

RenderHeader == Returns("Header", [el |-> Header(props)])

RenderFooter == Returns("Footer", [el |-> Footer(props)])

RenderPageLayout ==
    \/ /\ comp = "PageLayout" /\ PageLayoutThrows(props)
       /\ Throws("PageLayout", "TypeError")
    \/ /\ comp = "PageLayout" /\ ~PageLayoutThrows(props)
       /\ Returns("PageLayout", [el |-> PageLayout(props)])

\* useLayout() in a component under props.ancestors.
RenderConsumer ==
    LET context == useContext(props.ancestors)
    IN  /\ comp = "Consumer"
        /\ pc = "call"
        /\ IF isNullish(context)
           THEN pc' = "threw" /\ out' = Thrown("Error")
           ELSE pc' = "done" /\ out' = [value |-> context]
        /\ UNCHANGED <<comp, props, clicked>>

\* onMobileMenuToggle as the parent supplies it: the parent flips its
\* mobileMenuOpen and renders the Header again with the new value; without
\* a handler the call does nothing (onClick={undefined}, and ?.() on
\* undefined).
onMobileMenuToggle(event) ==
    /\ clicked' = Append(clicked, event)
    /\ IF props.onMobileMenuToggle
       THEN /\ props' = [props EXCEPT !.mobileMenuOpen = ~props.mobileMenuOpen]
            /\ out' = [el |-> Header(props')]
       ELSE UNCHANGED <<props, out>>
    /\ UNCHANGED <<comp, pc>>

\* A click on the toggle button, which is there when showMobileMenu.
ClickToggle ==
    /\ comp = "Header" /\ pc = "done"
    /\ Len(clicked) < MaxClicks
    /\ out.el.toggle
    /\ onMobileMenuToggle("toggle")

\* A click on an item of the mobile menu, which is there when the menu lists
\* its items: onClose calls onMobileMenuToggle?.().
ClickMenuItem ==
    /\ comp = "Header" /\ pc = "done"
    /\ Len(clicked) < MaxClicks
    /\ Len(out.el.mobileMenu) > 0
    /\ onMobileMenuToggle("item")

Next ==
    \/ RenderButton
    \/ RenderActionButton
    \/ RenderActionButtons
    \/ RenderLogo
    \/ RenderHeader
    \/ RenderFooter
    \/ RenderPageLayout
    \/ RenderConsumer
    \/ ClickToggle
    \/ ClickMenuItem

Spec == Init /\ [][Next]_vars

(***************************************************************************)
(* Properties                                                              *)
(***************************************************************************)
\* s contains sub as a substring.
Contains(s, sub) ==
    \E i \in 1..Len(s) :
        /\ i + Len(sub) - 1 <= Len(s)
        /\ SubSeq(s, i, i + Len(sub) - 1) = sub

\* The first n characters of s are exactly pre.
BeginsWith(s, pre) == \E n \in 0..Len(s) : SubSeq(s, 1, n) = pre

Rendered(c) == comp = c /\ pc = "done"

Resolved(c) == comp = c /\ pc # "call"

\* An anchor whose target opens a new context carries a rel with "noopener".
SafeAnchor(el) ==
    (el.kind = "a" /\ el.target = "_blank") =>
        (Truthy(el.rel) /\ Contains(el.rel, "noopener"))

\* C1: whenever the target reaching the rendered anchor is "_blank" and the
\* caller supplied no rel, the rel reaching the anchor is non-empty and
\* contains "noopener", for ActionButton and for Button with an href, also
\* when target="_blank" is given on an href that is not external.
C1_BlankTargetHasNoopener ==
    /\ (Rendered("ActionButton") /\ props.rel = Undef) => SafeAnchor(out.el)
    /\ (Rendered("Button") /\ props.rel = Undef) => SafeAnchor(out.el)

\* C2: with no explicit target and no explicit rel, ActionButton resolves an
\* href to target "_blank" and rel "noopener noreferrer" exactly when the
\* external flag is set or the href begins with "http" or with "//", and to
\* undefined target and rel otherwise; the attributes reach the anchor.
C2_External(p) ==
    p.external \/ BeginsWith(p.href, "http") \/ BeginsWith(p.href, "//")

C2_ExternalDefaults ==
    (Rendered("ActionButton") /\ props.target = Undef /\ props.rel = Undef) =>
        /\ out.passed.target = IF C2_External(props) THEN "_blank" ELSE Undef
        /\ out.passed.rel = IF C2_External(props) THEN "noopener noreferrer"
                            ELSE Undef
        /\ out.el.kind = "a" =>
              /\ out.el.target = out.passed.target
              /\ out.el.rel = out.passed.rel
        /\ (props.href \in {"https://a.com", "//a.com"}) =>
              out.passed.target = "_blank"
        /\ (props.href = "/local") =>
              (out.passed.target = "_blank" <=> props.external)

C2_Witness ==
    /\ Rendered("ActionButton")
    /\ props.href = "//a.com" /\ ~props.external
    /\ props.target = Undef /\ props.rel = Undef
    /\ out.el.kind = "a" /\ out.el.target = "_blank"
    /\ out.el.rel = "noopener noreferrer"

\* C3 as stated: every supplied target (the empty string included) is the
\* resolved target, and every supplied rel the resolved rel.
C3_ExplicitAlwaysWins ==
    Rendered("ActionButton") =>
        /\ props.target # Undef => out.passed.target = props.target
        /\ props.rel # Undef => out.passed.rel = props.rel

\* C3, amended: a supplied non-empty target is the resolved target whether
\* or not the link is external, and likewise a supplied non-empty rel; an
\* empty string counts as not supplied, so the derived value ("_blank" and
\* "noopener noreferrer" for an external link, undefined otherwise) is used
\* exactly when the value is omitted or empty.
C3_NonEmptyExplicitWins ==
    Rendered("ActionButton") =>
        /\ out.passed.target =
              IF props.target \notin {Undef, ""} THEN props.target
              ELSE IF C2_External(props) THEN "_blank" ELSE Undef
        /\ out.passed.rel =
              IF props.rel \notin {Undef, ""} THEN props.rel
              ELSE IF C2_External(props) THEN "noopener noreferrer" ELSE Undef

C3_Witness ==
    /\ Rendered("ActionButton")
    /\ props.href = "https://a.com" /\ props.target = "_self"
    /\ out.el.kind = "a" /\ out.el.target = "_self"

\* C4 as stated: Button renders an anchor exactly when an href is supplied,
\* the empty string included.
C4_AnchorIffHrefSupplied ==
    Rendered("Button") => (out.el.kind = "a" <=> props.href # Undef)

\* C4, amended: Button renders an anchor carrying href, target and rel
\* exactly when href is a non-empty string, and a button otherwise, whatever
\* the other props are; an href that is the empty string counts as absent.
C4_AnchorIffHrefNonEmpty ==
    Rendered("Button") =>
        /\ out.el.kind = IF props.href \notin {Undef, ""} THEN "a" ELSE "button"
        /\ out.el.kind = "a" =>
              /\ out.el.href = props.href
              /\ out.el.target = props.target
              /\ out.el.rel = props.rel

C4_Witness ==
    /\ Rendered("Button")
    /\ props.href = "" /\ props.target = "_blank"
    /\ out.el.kind = "button"

\* The disabled state reaches the element.
ActivationSuppressed(el) == "disabled" \in DOMAIN el /\ el.disabled

\* C5: disabled=true or loading=true suppresses activation of the rendered
\* element, for the anchor as well as for the button.
C5_DisabledSuppressesActivation ==
    /\ (Rendered("Button") /\ (props.disabled \/ props.loading)) =>
          ActivationSuppressed(out.el)
    /\ (Rendered("ActionButton") /\ (props.disabled \/ props.loading)) =>
          ActivationSuppressed(out.el)

\* C6: a Button without a destination renders a button whose disabled
\* attribute is (disabled OR loading), for the four combinations of the
\* flags, and the render raises nothing.
C6_DisabledIsDisabledOrLoading ==
    /\ (comp = "Button" /\ ~Truthy(props.href)) => pc # "threw"
    /\ (Rendered("Button") /\ ~Truthy(props.href)) =>
          /\ out.el.kind = "button"
          /\ (~props.disabled /\ ~props.loading) => out.el.disabled = FALSE
          /\ (props.disabled /\ ~props.loading) => out.el.disabled = TRUE
          /\ (~props.disabled /\ props.loading) => out.el.disabled = TRUE
          /\ (props.disabled /\ props.loading) => out.el.disabled = TRUE

C6_Witness ==
    /\ Rendered("Button")
    /\ props.href = Undef /\ props.loading /\ ~props.disabled
    /\ out.el.kind = "button" /\ out.el.disabled

\* A value that is present and is none of the dimension's allowed values.
Invalid(value, allowed) == value # Undef /\ value \notin allowed

\* C7: a style dimension resolved with a value that is present and not
\* allowed fails with a ConfigError, and no class string is produced.
C7_InvalidValueRejected ==
    LET rejected == pc = "threw" /\ out = Thrown("ConfigError")
    IN  /\ (Resolved("Button") /\
              \/ Invalid(props.variant, DOMAIN variantTable)
              \/ Invalid(props.size, DOMAIN sizeTable)
              \/ Invalid(props.width, DOMAIN widthTable)) => rejected
        /\ (Resolved("ActionButtons") /\
              \/ Invalid(props.gap, DOMAIN gapClasses)
              \/ Invalid(props.align, DOMAIN alignClasses)) => rejected
        /\ (Resolved("Header") /\
              Invalid(props.variant, DOMAIN headerVariants)) => rejected
        /\ (Resolved("Footer") /\
              Invalid(props.variant, DOMAIN footerVariants)) => rejected
        /\ (Resolved("PageLayout") /\
              Invalid(props.background, DOMAIN backgroundVariants)) => rejected

\* C8: PageLayout with a preset name that is not registered fails with an
\* error and never renders with the default preset's classes.
C8_UnknownPresetFails ==
    (Resolved("PageLayout") /\ Invalid(props.variant, DOMAIN layoutVariants)) =>
        pc = "threw"

\* C9: PageLayout with a main.maxWidth that is present (a non-empty string)
\* and is no key of the width table fails with a ConfigError; it never
\* produces main classes.
C9_UnknownMaxWidthFails ==
    (Resolved("PageLayout") /\ Truthy(props.main.maxWidth) /\
        Invalid(props.main.maxWidth, DOMAIN maxWidthClasses)) =>
            (pc = "threw" /\ out = Thrown("ConfigError"))

\* The composed classes end with the caller's classes.
EndsWith(classes, override) ==
    LET last == DedupeLast(override)
    IN  /\ Len(last) <= Len(classes)
        /\ SubSeq(classes, Len(classes) - Len(last) + 1, Len(classes)) = last

\* C10: in every composed class sequence the caller's override classes come
\* after every generated fragment.
C10_OverrideComesLast ==
    /\ Rendered("Button") => EndsWith(out.el.className, props.className)
    /\ Rendered("ActionButton") => EndsWith(out.el.className, props.className)
    /\ Rendered("ActionButtons") => EndsWith(out.el.className, props.className)
    /\ Rendered("Logo") => EndsWith(out.el.className, props.className)
    /\ Rendered("Header") => EndsWith(out.el.className, props.className)
    /\ Rendered("Footer") => EndsWith(out.el.className, props.className)
    /\ Rendered("PageLayout") =>
          /\ EndsWith(out.el.className,
                      props.container.className \o props.className)
          /\ EndsWith(out.el.mainClassName, props.main.className)

\* The class sequence holds the fragment, its tokens adjacent and in order.
HasFragment(classes, frag) ==
    \E i \in 1..Len(classes) :
        /\ i + Len(frag) - 1 <= Len(classes)
        /\ SubSeq(classes, i, i + Len(frag) - 1) = frag

\* The direction and the mobile behaviour in force once defaults apply.
C11_Direction == IF props.direction = Undef THEN "horizontal" ELSE props.direction

C11_Mobile ==
    IF props.responsive = UndefObj THEN "stack" ELSE props.responsive.mobile

\* C11: the container of ActionButtons holds the stacking fragment exactly
\* when mobile = stack and direction = horizontal, the wrap fragment exactly
\* when mobile = wrap and the scroll fragment exactly when mobile = scroll,
\* whatever the direction; an omitted responsive means mobile = stack, an
\* omitted direction means horizontal.
C11_ResponsiveFragments ==
    Rendered("ActionButtons") =>
        /\ HasFragment(out.el.className, <<"flex-col", "sm:flex-row">>)
              <=> (C11_Mobile = "stack" /\ C11_Direction = "horizontal")
        /\ HasFragment(out.el.className, <<"flex-row", "flex-wrap">>)
              <=> C11_Mobile = "wrap"
        /\ HasFragment(out.el.className, <<"flex-row", "overflow-x-auto">>)
              <=> C11_Mobile = "scroll"
        /\ "sm:flex-row" \in {out.el.className[i] :
                                 i \in 1..Len(out.el.className)}
              <=> (C11_Mobile = "stack" /\ C11_Direction = "horizontal")

C11_Witness ==
    /\ Rendered("ActionButtons")
    /\ props.responsive = UndefObj /\ props.direction = "vertical"
    /\ ~HasFragment(out.el.className, <<"flex-col", "sm:flex-row">>)
    /\ HasFragment(out.el.className, <<"flex-col">>)

\* C12: omitting a style dimension is the same as setting it to its declared
\* default: variant = primary, size = default, width = auto for Button and
\* for ActionButton; variant = default and background = default for
\* PageLayout.
C12_OmittedIsDefault ==
    /\ Rendered("Button") =>
          /\ props.variant = Undef =>
                out.el = Button([props EXCEPT !.variant = "primary"])
          /\ props.size = Undef =>
                out.el = Button([props EXCEPT !.size = "default"])
          /\ props.width = Undef =>
                out.el = Button([props EXCEPT !.width = "auto"])
    /\ Rendered("ActionButton") =>
          /\ props.variant = Undef =>
                out = ActionButton([props EXCEPT !.variant = "primary"])
          /\ props.size = Undef =>
                out = ActionButton([props EXCEPT !.size = "default"])
          /\ props.width = Undef =>
                out = ActionButton([props EXCEPT !.width = "auto"])
    /\ Resolved("PageLayout") =>
          /\ props.variant = Undef =>
                /\ pc = "done"
                /\ out.el = PageLayout([props EXCEPT !.variant = "default"])
          /\ props.background = Undef =>
                /\ PageLayoutThrows(props) <=>
                      PageLayoutThrows([props EXCEPT !.background = "default"])
                /\ pc = "done" =>
                      out.el = PageLayout([props EXCEPT
                                              !.background = "default"])

C12_Witness ==
    /\ Rendered("Button")
    /\ props.variant = Undef /\ props.size = Undef /\ props.width = Undef
    /\ out.el.className =
          DedupeLast(buttonBase \o variantTable["primary"] \o
                     sizeTable["default"] \o widthTable["auto"] \o
                     props.className)

\* The tokens of a class sequence.
Tokens(classes) == {classes[i] : i \in 1..Len(classes)}

\* C13: for every valid (variant, size, width) triple the class list of a
\* Button is the base classes followed by exactly one fragment per table, the
\* one registered for the supplied value, in the order variant, size, width;
\* the caller's classes follow.  This is the list buttonVariants generates,
\* and the list the element carries when the caller's classes repeat no
\* token of it.
C13_OneFragmentPerTable ==
    (/\ Rendered("Button")
     /\ props.variant \in DOMAIN variantTable
     /\ props.size \in DOMAIN sizeTable
     /\ props.width \in DOMAIN widthTable) =>
        LET generated == buttonBase \o variantTable[props.variant] \o
                         sizeTable[props.size] \o widthTable[props.width]
        IN  /\ Flatten(buttonVariants(props.variant, props.size, props.width,
                                      props.className))
                  = generated \o props.className
            /\ Tokens(props.className) \cap Tokens(generated) = {} =>
                  out.el.className = generated \o props.className

C13_Witness ==
    /\ Rendered("Button")
    /\ props.variant = "ghost" /\ props.size = "icon" /\ props.width = "fixed"
    /\ props.className = <<"mt-4">>
    /\ HasFragment(out.el.className,
                   sizeTable["icon"] \o widthTable["fixed"] \o <<"mt-4">>)

\* C19: PageLayout renders a header exactly when header.show is truthy and a
\* footer exactly when footer.show is truthy; an omitted header is hidden and
\* an omitted footer is shown; a config with a custom component and no show
\* flag renders nothing.  When shown, the custom component is what is
\* rendered; without one the header is SimpleHeader and the footer is
\* NextJSFooter for variant = default, the simple Footer for any other.
C19_HeaderFooterVisibility ==
    Rendered("PageLayout") =>
        LET headerShown ==
                props.header # UndefObj /\ props.header.show = {TRUE}
            footerShown ==
                props.footer = UndefObj \/ props.footer.show = {TRUE}
            headerCustom == props.header # UndefObj /\ props.header.component
            footerCustom == props.footer # UndefObj /\ props.footer.component
            isDefault == props.variant \in {Undef, "default"}
        IN  /\ out.el.header # "null" <=> headerShown
            /\ out.el.footer # "null" <=> footerShown
            /\ headerShown =>
                  out.el.header =
                      IF headerCustom THEN "component" ELSE "SimpleHeader"
            /\ footerShown =>
                  out.el.footer =
                      IF footerCustom THEN "component"
                      ELSE IF isDefault THEN "NextJSFooter" ELSE "Footer"

C19_Witness ==
    /\ Rendered("PageLayout")
    /\ props.header = [show |-> {TRUE}, component |-> FALSE]
    /\ props.footer = [show |-> {}, component |-> TRUE]
    /\ out.el.header = "SimpleHeader"
    /\ out.el.footer = "null"

\* C16 as stated: while loading, the children are not rendered (the span
\* holds loadingText when given and nothing otherwise), the spinner is, and
\* the icon is not.
C16_LoadingReplacesLabel ==
    (Rendered("Button") /\ props.loading) =>
        out.el.content =
            <<Spinner,
              Span(IF Truthy(props.loadingText)
                   THEN <<Text(props.loadingText)>> ELSE << >>)>>

\* C16: while loading, a Button renders the spinner first and no icon; its
\* span holds loadingText in place of the children when loadingText is given
\* and non-empty, and still the children when loadingText is omitted or
\* empty.
C16_LoadingTextReplacesLabel ==
    (Rendered("Button") /\ props.loading) =>
        /\ out.el.content[1] = Spinner
        /\ \A i \in 1..Len(out.el.content) : out.el.content[i] # IconNode
        /\ Truthy(props.loadingText) =>
              out.el.content = <<Spinner, Span(<<Text(props.loadingText)>>)>>
        /\ ~Truthy(props.loadingText) =>
              out.el.content = <<Spinner, Span(props.children)>>

C16_Witness ==
    /\ Rendered("Button")
    /\ props.loading /\ props.icon /\ props.loadingText = Undef
    /\ props.children = <<Text("Save")>>
    /\ out.el.content = <<Spinner, Span(<<Text("Save")>>)>>

\* C15: an ActionButton whose icon descriptor has a missing or empty src or
\* alt fails with a ConfigError and renders nothing; a well-formed icon is
\* passed through untouched to the Image.
C15_MalformedIconRejected ==
    (Resolved("ActionButton") /\ props.icon # UndefObj) =>
        IF ~Truthy(props.icon.src) \/ ~Truthy(props.icon.alt)
        THEN pc = "threw" /\ out = Thrown("ConfigError")
        ELSE /\ pc = "done"
             /\ \E i \in 1..Len(out.passed.children) :
                   /\ out.passed.children[i].tag = "Image"
                   /\ out.passed.children[i].src = props.icon.src
                   /\ out.passed.children[i].alt = props.icon.alt

\* C14: a consumer nested in a PageLayout reads from useLayout that
\* PageLayout's own variant, whether its header is shown and whether its
\* footer is shown.
C14_ConsumerSeesItsLayout ==
    (Resolved("Consumer") /\ props.ancestors # << >>) =>
        /\ pc = "done"
        /\ out.value = contextOf(props.ancestors[Len(props.ancestors)])

\* C18: useLayout throws 'useLayout must be used within a PageLayout' in a
\* consumer that is under no PageLayout, and returns the context only in a
\* consumer that is under one.
C18_ThrowsOutsideLayout ==
    Resolved("Consumer") =>
        /\ props.ancestors = << >> => (pc = "threw" /\ out = Thrown("Error"))
        /\ props.ancestors # << >> => pc = "done"

\* The rendered Header lists the items of its mobile menu.
MenuListed == Len(out.el.mobileMenu) > 0

\* C20: for a Header whose parent flips mobileMenuOpen on every
\* onMobileMenuToggle call, after any sequence of clicks on the toggle button
\* and on menu items the mobile item list is rendered exactly when
\* showMobileMenu is true, navigation is non-empty and mobileMenuOpen is
\* true; a menu item is clicked only while the menu is open and the click
\* leaves it closed; without a handler no click raises an error or changes
\* the state.
C20_MobileMenuFollowsToggle ==
    /\ [](Rendered("Header") =>
             (MenuListed <=> /\ props.showMobileMenu
                             /\ Len(props.navigation) > 0
                             /\ props.mobileMenuOpen))
    /\ [][clicked' # clicked =>
             LET event == clicked'[Len(clicked')]
             IN  /\ pc' = "done"
                 /\ event = "item" => (props.mobileMenuOpen /\ MenuListed)
                 /\ props.onMobileMenuToggle =>
                       /\ props'.mobileMenuOpen = ~props.mobileMenuOpen
                       /\ event = "item" =>
                             (~props'.mobileMenuOpen /\ ~MenuListed')
                 /\ ~props.onMobileMenuToggle =>
                       (props' = props /\ out' = out)]_vars

C20_Witness ==
    /\ Rendered("Header")
    /\ props.onMobileMenuToggle
    /\ clicked = <<"toggle", "item", "toggle">>
    /\ props.mobileMenuOpen /\ MenuListed

\* The link rendered for an item carries target "_blank" and rel
\* "noopener noreferrer" when the item's external flag is set, and neither
\* attribute when it is not.
FollowsExternalFlag(link, item) ==
    /\ link.href = item.href
    /\ item.external =>
          (link.target = "_blank" /\ link.rel = "noopener noreferrer")
    /\ ~item.external => (link.target = Undef /\ link.rel = Undef)

\* C21: in the header's navigation links, the mobile menu's items and the
\* footer's links, target "_blank" and rel "noopener noreferrer" are set
\* together exactly when the item's external flag is true and are both absent
\* otherwise, whatever the href: a link never has target "_blank" without
\* rel holding "noopener", and an href starting with "http" or "//" without
\* the flag gets neither attribute.
C21_LinkAttributesFollowFlag ==
    /\ Rendered("Header") =>
          /\ Len(out.el.desktopNav) = Len(props.navigation)
          /\ \A i \in 1..Len(out.el.desktopNav) :
                FollowsExternalFlag(out.el.desktopNav[i], props.navigation[i])
          /\ \A i \in 1..Len(out.el.mobileMenu) :
                FollowsExternalFlag(out.el.mobileMenu[i], props.navigation[i])
    /\ Rendered("Footer") =>
          \A i \in 1..Len(out.el.links) :
              FollowsExternalFlag(out.el.links[i], props.links[i])

C21_Witness ==
    /\ Rendered("Header")
    /\ props.showMobileMenu /\ props.mobileMenuOpen
    /\ props.navigation = <<[href |-> "//cdn.b.com", external |-> FALSE]>>
    /\ out.el.desktopNav[1].target = Undef
    /\ Len(out.el.mobileMenu) = 1 /\ out.el.mobileMenu[1].rel = Undef

====
